---- MODULE Spec2Model ----
(***************************************************************************)
(* Model of src/lexicon.py: prepare_lexicon (phone validation, positional  *)
(* tagging, disambiguation symbols, symbol tables, boundary table) and     *)
(* write_fst_with_silence / write_nonterminal_arcs (arc emission).         *)
(*                                                                         *)
(* Symbols are Python strings and are modelled as TLA+ strings: tagging is *)
(* string concatenation, ' '.join is Join, f'#{n}' is DisambigSym(n), and  *)
(* a dict is the sequence of its <<key, value>> items in insertion order.  *)
(***************************************************************************)
EXTENDS Integers, Sequences, FiniteSets, TLC

VARIABLES
    pc,                \* position of the run
    error,             \* the exception that ended the run, or "none"
    input_lexicon,     \* value of the lexicon argument when prepare_lexicon was called
    caller_lexicon,    \* the caller's list object, as it is now
    lexicon,           \* the object the local name 'lexicon' is bound to
    silence_phones, nonsilence_phones, optional_silence,
    max_disambig, reserved_empty, last_sym, sil_disambig,
    phone_map, words_map,
    files,             \* the files written so far: name -> content
    fst_args,          \* arguments of the running write_fst_with_silence call
    next_state,        \* write_fst_with_silence: next un-allocated state id
    idx,               \* write_fst_with_silence: entries of the lexicon already emitted
    file,              \* lines printed to the 'file' sink
    stdout             \* lines printed to the standard output

vars == <<pc, error, input_lexicon, caller_lexicon, lexicon, silence_phones,
          nonsilence_phones, optional_silence, max_disambig, reserved_empty,
          last_sym, sil_disambig, phone_map, words_map, files, fst_args,
          next_state, idx, file, stdout>>

prepVars == <<input_lexicon, caller_lexicon, lexicon, silence_phones,
              nonsilence_phones, optional_silence, max_disambig, reserved_empty,
              last_sym, sil_disambig, phone_map, words_map, files>>

fstVars == <<fst_args, next_state, idx, file, stdout>>

-----------------------------------------------------------------------------
(* Bounds of the checked instances.                                        *)

MaxEntries == 3        \* entries of a lexicon passed to prepare_lexicon
MaxPron == 2           \* phones of one pronunciation

RECURSIVE SeqsUpTo(_, _)
SeqsUpTo(S, n) ==
    IF n = 0 THEN {<<>>}
    ELSE LET shorter == SeqsUpTo(S, n - 1)
         IN  shorter \cup {Append(s, e) : s \in {t \in shorter : Len(t) = n - 1}, e \in S}

Entry(w, p, trans) == [word |-> w, prob |-> p, pron |-> trans]

-----------------------------------------------------------------------------
(* Python helpers.                                                         *)

\* ' '.join(t)
RECURSIVE Join(_)
Join(t) ==
    IF Len(t) = 0 THEN ""
    ELSE IF Len(t) = 1 THEN t[1]
    ELSE t[1] \o " " \o Join(Tail(t))

\* f'#{n}'
DisambigSym(n) == "#" \o ToString(n)

\* d[k] = v that keeps the old value of a key already present
DictSet_KeepsOld(d, k, v) ==
    IF \E j \in DOMAIN d : d[j][1] = k THEN d ELSE Append(d, <<k, v>>)

\* d[k] = v on a dict kept as its items in insertion order
DictSet(d, k, v) ==
    IF \E j \in DOMAIN d : d[j][1] = k
    THEN [j \in DOMAIN d |-> IF d[j][1] = k THEN <<k, v>> ELSE d[j]]
    ELSE Append(d, <<k, v>>)

DictKeys(d) == {d[j][1] : j \in DOMAIN d}
DictGet(d, k) == d[CHOOSE j \in DOMAIN d : d[j][1] = k][2]

\* for i in 1..Len(ks): d[ks[i]] = counter; counter += 1, the counter starting at c0
RECURSIVE DictSetCounting(_, _, _)
DictSetCounting(d, ks, c0) ==
    IF Len(ks) = 0 THEN d
    ELSE DictSetCounting(DictSet(d, ks[1], c0), Tail(ks), c0 + 1)

RECURSIVE Flatten(_)
Flatten(ss) == IF Len(ss) = 0 THEN <<>> ELSE ss[1] \o Flatten(Tail(ss))

-----------------------------------------------------------------------------
(* prepare_lexicon, lines 161-163: phone validation.                       *)

IsProperPhoneme(ph, nonsil, sil) ==
    (\E i \in DOMAIN nonsil : nonsil[i] = ph) \/ (\E i \in DOMAIN sil : sil[i] = ph)

\* validation that looks at the first phone of each transcription only
AllPhonemesProper_FirstPhoneOnly(lex, nonsil, sil) ==
    \A e \in DOMAIN lex :
        Len(lex[e].pron) > 0 => IsProperPhoneme(lex[e].pron[1], nonsil, sil)

AllPhonemesProper(lex, nonsil, sil) ==
    \A e \in DOMAIN lex : \A k \in DOMAIN lex[e].pron :
        IsProperPhoneme(lex[e].pron[k], nonsil, sil)

(* prepare_lexicon, lines 165-173: positional tagging of one transcription *)
(* of length >= 1 (trans[0] of an empty list raises IndexError).           *)
TagTrans(trans) ==
    IF Len(trans) = 1 THEN <<trans[1] \o "_S">>
    ELSE [i \in 1..Len(trans) |->
            IF i = 1 THEN trans[i] \o "_B"
            ELSE IF i = Len(trans) THEN trans[i] \o "_E"
            ELSE trans[i] \o "_I"]

\* index of the first entry whose transcription is empty, 0 when there is none
FirstEmpty(lex) ==
    IF \E e \in DOMAIN lex : Len(lex[e].pron) = 0
    THEN CHOOSE e \in DOMAIN lex :
            /\ Len(lex[e].pron) = 0
            /\ \A d \in 1..(e - 1) : Len(lex[d].pron) # 0
    ELSE 0

\* the list after the tagging loop has run over entries 1..n
TagUpTo(lex, n) ==
    [e \in DOMAIN lex |->
        IF e <= n THEN [lex[e] EXCEPT !.pron = TagTrans(@)] ELSE lex[e]]

-----------------------------------------------------------------------------
(* prepare_lexicon, lines 175-218: add_disambig.                           *)

first_sym == 1         \* 0 is reserved for wdisambig

\* count[x], lines 181-187
Count(lex, x) == Cardinality({e \in DOMAIN lex : Join(lex[e].pron) = x})

\* prefix, lines 189-194: every proper prefix of every transcription, joined
PrefixSet(lex) ==
    UNION {{Join(SubSeq(lex[e].pron, 1, k)) : k \in 0..(Len(lex[e].pron) - 1)}
              : e \in DOMAIN lex}

\* lines 210-211: while curr_sym in reserved_empty: curr_sym += 1
RECURSIVE SkipReserved(_, _)
SkipReserved(curr_sym, reserved) ==
    IF curr_sym \in reserved THEN SkipReserved(curr_sym + 1, reserved) ELSE curr_sym

\* the test of line 198 without the count
NeedsNoDisambig_IgnoresCount(x, prefix, cnt) == x \notin prefix

\* line 198: the entry is left as it is
NeedsNoDisambig(x, prefix, cnt) == x \notin prefix /\ cnt = 1

\* lines 206-209 stepping by two
FirstCandidate_StepsByTwo(x, lsym) ==
    IF x \notin DictKeys(lsym) THEN first_sym ELSE DictGet(lsym, x) + 2

\* lines 206-209: the first candidate symbol for the string x
FirstCandidate(x, lsym) ==
    IF x \notin DictKeys(lsym) THEN first_sym ELSE DictGet(lsym, x) + 1

\* lines 197-215: one iteration of the assignment loop, on entry e.
\* st = [lex, max_disambig, reserved_empty, last_sym]; count and prefix were
\* computed from the tagged lexicon before the loop.
DisambigEntry(st, e, tagged, prefix) ==
    LET x == Join(st.lex[e].pron)
    IN  IF NeedsNoDisambig(x, prefix, Count(tagged, x)) THEN st
        ELSE IF Len(x) = 0
        THEN LET m == st.max_disambig + 1
             IN  [lex |-> [st.lex EXCEPT ![e].pron = Append(@, DisambigSym(m))],
                  max_disambig |-> m,
                  reserved_empty |-> st.reserved_empty \cup {m},
                  last_sym |-> st.last_sym]
        ELSE LET curr_sym == SkipReserved(FirstCandidate(x, st.last_sym), st.reserved_empty)
             IN  [lex |-> [st.lex EXCEPT ![e].pron = Append(@, DisambigSym(curr_sym))],
                  max_disambig |-> IF curr_sym > st.max_disambig THEN curr_sym
                                   ELSE st.max_disambig,
                  reserved_empty |-> st.reserved_empty,
                  last_sym |-> DictSet(st.last_sym, x, curr_sym)]

RECURSIVE DisambigFrom(_, _, _, _)
DisambigFrom(st, e, tagged, prefix) ==
    IF e > Len(st.lex) THEN st
    ELSE DisambigFrom(DisambigEntry(st, e, tagged, prefix), e + 1, tagged, prefix)

\* lines 176-215 on the tagged lexicon
AddDisambig(tagged) ==
    DisambigFrom([lex |-> tagged, max_disambig |-> first_sym - 1,
                  reserved_empty |-> {}, last_sym |-> <<>>],
                 1, tagged, PrefixSet(tagged))

-----------------------------------------------------------------------------
(* prepare_lexicon, lines 220-290: symbol tables and side files.           *)

\* keys assigned at lines 222-246, in assignment order
SilenceKeys(ph) == <<ph, ph \o "_B", ph \o "_E", ph \o "_S", ph \o "_I">>
NonsilenceKeys(ph) == <<ph \o "_B", ph \o "_E", ph \o "_S", ph \o "_I">>
DisambigKeys(maxd) == [i \in 1..(maxd + 1) |-> DisambigSym(i - 1)]

PhoneKeys(sil, nonsil, maxd) ==
    <<"<eps>">> \o Flatten([i \in DOMAIN sil |-> SilenceKeys(sil[i])])
                \o Flatten([i \in DOMAIN nonsil |-> NonsilenceKeys(nonsil[i])])
                \o DisambigKeys(maxd)

BuildPhoneMap(sil, nonsil, maxd) == DictSetCounting(<<>>, PhoneKeys(sil, nonsil, maxd), 0)

\* Python's order of str (by code point) on the words of the model
WordOrder == <<"#0", "</s>", "<eps>", "<s>", "a", "b">>
WordRank(w) == CHOOSE r \in DOMAIN WordOrder : WordOrder[r] = w

\* sorted(wordlist), line 266
RECURSIVE SortedWords(_)
SortedWords(ws) ==
    IF ws = {} THEN <<>>
    ELSE LET least == CHOOSE w \in ws : \A v \in ws : WordRank(w) <= WordRank(v)
         IN  <<least>> \o SortedWords(ws \ {least})

WordKeys(lex) ==
    <<"<eps>">> \o SortedWords({lex[e].word : e \in DOMAIN lex}) \o <<"#0", "<s>", "</s>">>

BuildWordsMap(lex) == DictSetCounting(<<>>, WordKeys(lex), 0)

\* disambig.int, lines 254-257
DisambigInt(pmap, maxd) == [i \in 1..(maxd + 1) |-> DictGet(pmap, DisambigSym(i - 1))]

\* word_boundary.int, lines 281-290
WordBoundaryInt(sil, nonsil) ==
    LET cats == Flatten([i \in DOMAIN sil |->
                            <<"nonword", "begin", "end", "singleton", "internal">>])
                \o Flatten([i \in DOMAIN nonsil |->
                            <<"begin", "end", "singleton", "internal">>])
    IN  [c \in DOMAIN cats |-> <<c, cats[c]>>]

-----------------------------------------------------------------------------
(* write_fst_with_silence and write_nonterminal_arcs: printed lines.       *)
(* A cost is kept as the terms the code adds up: how many times sil_cost   *)
(* (-log(sil_prob)) and no_sil_cost (-log(1 - sil_prob)) occur, the added  *)
(* pron_cost, and n when the term -log(1.0 / n) occurs (0 when absent).    *)

Cost(s, n, w, l) == [sil_cost |-> s, no_sil_cost |-> n, pron_cost |-> w, log_len |-> l]
Zero == Cost(0, 0, 0, 0)

Arc(src, dest, phone, word, cost) ==
    [src |-> src, dest |-> dest, phone |-> phone, word |-> word, cost |-> cost]
Final(state, final_cost) == [state |-> state, final_cost |-> final_cost]

\* an optional argument: <<>> is None, <<v>> is the value v
Some(v) == <<v>>
IsNone(o) == Len(o) = 0
Value(o) == o[1]

start_state == 0
loop_state == 1
sil_state == 2
first_free_state == 3

\* lines 82: assert sil_prob > 0.0 and sil_prob < 1.0 (sil_prob in percent)
SilProbOk(sil_prob) == sil_prob > 0 /\ sil_prob < 100

\* lines 92-110: the arcs printed before the loop over the lexicon
HeaderArcs(sil_phone, sil_dis) ==
    <<Arc(start_state, loop_state, "<eps>", "<eps>", Cost(0, 1, 0, 0)),
      Arc(start_state, sil_state, "<eps>", "<eps>", Cost(1, 0, 0, 0))>>
    \o IF IsNone(sil_dis)
       THEN <<Arc(sil_state, loop_state, sil_phone, "<eps>", Zero)>>
       ELSE <<Arc(sil_state, first_free_state, sil_phone, "<eps>", Zero),
              Arc(first_free_state, loop_state, Value(sil_dis), "<eps>", Zero)>>

\* lines 103-104: next_state after the header
HeaderNextState(sil_dis) == IF IsNone(sil_dis) THEN first_free_state ELSE first_free_state + 1

\* lines 116-123: the arcs of the chain, arc i (0-based) from state cur to next_state
ChainArcs(e, nxt) ==
    [k \in 1..(Len(e.pron) - 1) |->
        Arc(IF k = 1 THEN loop_state ELSE nxt + k - 2,
            nxt + k - 1,
            e.pron[k],
            IF k - 1 = 0 THEN e.word ELSE "<eps>",
            IF k - 1 = 0 THEN Cost(0, 0, e.prob, 0) ELSE Zero)]

\* lines 125-137: the two parallel last arcs, from cur_state
LastArcs(e, nxt) ==
    LET i == Len(e.pron) - 1
        cur_state == IF Len(e.pron) <= 1 THEN loop_state ELSE nxt + Len(e.pron) - 2
        phone == IF i >= 0 THEN e.pron[i + 1] ELSE "<eps>"
        word == IF i <= 0 THEN e.word ELSE "<eps>"
        pron_cost == IF i <= 0 THEN e.prob ELSE 0
    IN  <<Arc(cur_state, loop_state, phone, word, Cost(0, 1, pron_cost, 0)),
          Arc(cur_state, sil_state, phone, word, Cost(1, 0, pron_cost, 0))>>

\* lines 112-137: one iteration of the loop, for entry e with next_state = nxt
EntryArcs(e, nxt) == ChainArcs(e, nxt) \o LastArcs(e, nxt)

\* the loop without line 123 (next_state += 1)
EntryNextState_NeverAdvances(e, nxt) == nxt

EntryNextState(e, nxt) == IF Len(e.pron) <= 1 THEN nxt ELSE nxt + Len(e.pron) - 1

\* write_nonterminal_arcs, lines 29-61: [out: lines printed, next_state, error]
write_nonterminal_arcs(start, loop, nxt, nonterminals, left_context_phones) ==
    LET shared_state == nxt
        final_state == nxt + 1
        first == <<Arc(start, shared_state, "#nonterm_begin", "#nonterm_begin", Zero)>>
                 \o [k \in DOMAIN nonterminals |->
                        Arc(loop, shared_state, nonterminals[k], nonterminals[k], Zero)]
    IN  IF IsNone(left_context_phones)
        THEN [out |-> first, next_state |-> nxt + 2, error |-> "TypeError"]
        ELSE IF Len(Value(left_context_phones)) = 0
        THEN [out |-> first, next_state |-> nxt + 2, error |-> "ZeroDivisionError"]
        ELSE LET lcp == Value(left_context_phones)
                 this_cost == Cost(0, 0, 0, Len(lcp))
             IN  [out |-> first
                          \o [k \in DOMAIN lcp |->
                                Arc(shared_state, loop, lcp[k], "<eps>", this_cost)]
                          \o <<Arc(loop, final_state, "#nonterm_end", "#nonterm_end", Zero),
                               Final(final_state, Zero)>>,
                  next_state |-> nxt + 2,
                  error |-> "none"]

\* the stream that receives the lines printed by write_nonterminal_arcs:
\* print(...) without file= writes to the standard output
NontermSink == "stdout"

-----------------------------------------------------------------------------
(* The runs.                                                               *)

NoFiles == [n \in {} |-> <<>>]
NoArgs == [caller |-> "none"]

Init ==
    /\ pc = "idle"
    /\ error = "none"
    /\ input_lexicon = <<>>
    /\ caller_lexicon = <<>>
    /\ lexicon = <<>>
    /\ silence_phones = <<>>
    /\ nonsilence_phones = <<>>
    /\ optional_silence = ""
    /\ max_disambig = 0
    /\ reserved_empty = {}
    /\ last_sym = <<>>
    /\ sil_disambig = 0
    /\ phone_map = <<>>
    /\ words_map = <<>>
    /\ files = NoFiles
    /\ fst_args = NoArgs
    /\ next_state = 0
    /\ idx = 0
    /\ file = <<>>
    /\ stdout = <<>>

\* the lexicons of at most n entries over the given words, weights and transcriptions
Lexicons(words, probs, prons, n) ==
    SeqsUpTo({Entry(w, p, t) : w \in words, p \in probs, t \in prons}, n)

\* prepare_lexicon(lex, sil, nonsil, opt, oov) is called (oov is never read)
Call_prepare_lexicon(lex, sil, nonsil, opt) ==
    /\ pc = "idle"
    /\ pc' = "called"
    /\ input_lexicon' = lex
    /\ caller_lexicon' = lex
    /\ lexicon' = lex
    /\ silence_phones' = sil
    /\ nonsilence_phones' = nonsil
    /\ optional_silence' = opt
    /\ UNCHANGED <<error, max_disambig, reserved_empty, last_sym, sil_disambig,
                   phone_map, words_map, files>>
    /\ UNCHANGED fstVars

\* lines 161-163
Validate ==
    /\ pc = "called"
    /\ IF AllPhonemesProper(lexicon, nonsilence_phones, silence_phones)
       THEN pc' = "validated" /\ error' = error
       ELSE pc' = "error" /\ error' = "AssertionError"
    /\ UNCHANGED prepVars
    /\ UNCHANGED fstVars

\* line 164: after copy.deepcopy the caller's list is another object than the
\* one the local name is bound to, so it keeps its value when the local one
\* is edited in place
CallerSees(callers, local) == callers

\* lines 164-173
TagPositions ==
    /\ pc = "validated"
    /\ LET fe == FirstEmpty(lexicon)
       IN  IF fe = 0
           THEN /\ lexicon' = TagUpTo(lexicon, Len(lexicon))
                /\ pc' = "tagged"
                /\ error' = error
           ELSE /\ lexicon' = TagUpTo(lexicon, fe - 1)
                /\ pc' = "error"
                /\ error' = "IndexError"
    /\ caller_lexicon' = CallerSees(caller_lexicon, lexicon')
    /\ UNCHANGED <<input_lexicon, silence_phones, nonsilence_phones, optional_silence,
                   max_disambig, reserved_empty, last_sym, sil_disambig,
                   phone_map, words_map, files>>
    /\ UNCHANGED fstVars

\* lines 175-218
Disambiguate ==
    /\ pc = "tagged"
    /\ LET st == AddDisambig(lexicon)
       IN  /\ lexicon' = st.lex
           /\ reserved_empty' = st.reserved_empty
           /\ last_sym' = st.last_sym
           /\ max_disambig' = st.max_disambig + 1
           /\ sil_disambig' = st.max_disambig + 1
    /\ caller_lexicon' = CallerSees(caller_lexicon, lexicon')
    /\ pc' = "disambiguated"
    /\ UNCHANGED <<error, input_lexicon, silence_phones, nonsilence_phones,
                   optional_silence, phone_map, words_map, files>>
    /\ UNCHANGED fstVars

\* lines 220-290
WriteTables ==
    /\ pc = "disambiguated"
    /\ phone_map' = BuildPhoneMap(silence_phones, nonsilence_phones, max_disambig)
    /\ words_map' = BuildWordsMap(lexicon)
    /\ files' = [n \in {"phones.txt", "disambig.int", "words.txt", "word_boundary.int"} |->
                    CASE n = "phones.txt" -> phone_map'
                      [] n = "disambig.int" -> DisambigInt(phone_map', max_disambig)
                      [] n = "words.txt" -> words_map'
                      [] n = "word_boundary.int" ->
                            WordBoundaryInt(silence_phones, nonsilence_phones)]
    /\ pc' = "tables"
    /\ UNCHANGED <<error, input_lexicon, caller_lexicon, lexicon, silence_phones,
                   nonsilence_phones, optional_silence, max_disambig, reserved_empty,
                   last_sym, sil_disambig>>
    /\ UNCHANGED fstVars

\* write_fst_with_silence(lex, sil_prob, sil_phone, sil_dis, file, nonterminals,
\* left_context_phones) is entered; line 90
EnterWriteFst(by, lex, sil_prob, sil_phone, sil_dis, nonterminals, left_context_phones) ==
    /\ fst_args' = [caller |-> by, lexicon |-> lex, sil_prob |-> sil_prob,
                    sil_phone |-> sil_phone, sil_disambig |-> sil_dis,
                    nonterminals |-> nonterminals,
                    left_context_phones |-> left_context_phones]
    /\ pc' = "fst_called"
    /\ next_state' = first_free_state
    /\ idx' = 0
    /\ file' = <<>>
    /\ stdout' = <<>>

\* lines 292-293: the call made by prepare_lexicon
PrepareCallsWriteFst ==
    /\ pc = "tables"
    /\ EnterWriteFst("prepare_lexicon", lexicon, 50, optional_silence, <<>>, <<>>, <<>>)
    /\ UNCHANGED error
    /\ UNCHANGED prepVars

\* lines 82-110
FstHeader ==
    /\ pc = "fst_called"
    /\ IF SilProbOk(fst_args.sil_prob)
       THEN /\ file' = file \o HeaderArcs(fst_args.sil_phone, fst_args.sil_disambig)
            /\ next_state' = HeaderNextState(fst_args.sil_disambig)
            /\ pc' = "fst_loop"
            /\ error' = error
       ELSE /\ pc' = "error"
            /\ error' = "AssertionError"
            /\ UNCHANGED <<file, next_state>>
    /\ UNCHANGED <<fst_args, idx, stdout>>
    /\ UNCHANGED prepVars

\* lines 112-137, one iteration
FstEntry ==
    /\ pc = "fst_loop"
    /\ idx < Len(fst_args.lexicon)
    /\ LET e == fst_args.lexicon[idx + 1]
       IN  /\ file' = file \o EntryArcs(e, next_state)
           /\ next_state' = EntryNextState(e, next_state)
    /\ idx' = idx + 1
    /\ UNCHANGED <<pc, error, fst_args, stdout>>
    /\ UNCHANGED prepVars

\* lines 139-146
FstFinish ==
    /\ pc = "fst_loop"
    /\ idx = Len(fst_args.lexicon)
    /\ IF IsNone(fst_args.nonterminals)
       THEN /\ file' = Append(file, Final(loop_state, Zero))
            /\ pc' = "fst_returned"
            /\ UNCHANGED <<error, next_state, stdout>>
       ELSE LET r == write_nonterminal_arcs(start_state, loop_state, next_state,
                                            Value(fst_args.nonterminals),
                                            fst_args.left_context_phones)
                toFile == IF NontermSink = "file" THEN r.out ELSE <<>>
                toStdout == IF NontermSink = "stdout" THEN r.out ELSE <<>>
            IN  /\ stdout' = stdout \o toStdout
                /\ IF r.error = "none"
                   THEN /\ next_state' = r.next_state
                        /\ file' = (file \o toFile) \o <<Final(loop_state, Zero)>>
                        /\ pc' = "fst_returned"
                        /\ error' = error
                   ELSE /\ next_state' = next_state
                        /\ file' = file \o toFile
                        /\ pc' = "error"
                        /\ error' = r.error
    /\ UNCHANGED <<fst_args, idx>>
    /\ UNCHANGED prepVars

\* lines 295-298: prepare_lexicon compiles the sink and returns
Compile ==
    /\ pc = "fst_returned"
    /\ fst_args.caller = "prepare_lexicon"
    /\ pc' = "done"
    /\ UNCHANGED error
    /\ UNCHANGED prepVars
    /\ UNCHANGED fstVars

Pipeline ==
    \/ Validate
    \/ TagPositions
    \/ Disambiguate
    \/ WriteTables
    \/ PrepareCallsWriteFst
    \/ FstHeader
    \/ FstEntry
    \/ FstFinish
    \/ Compile

-----------------------------------------------------------------------------
(* Spec: prepare_lexicon on lexicons of one word whose transcriptions vary *)
(* over two phones, 'y' being a declared silence phone or no phone at all. *)

LexPhones == {"x", "y"}
Prons == SeqsUpTo(LexPhones, MaxPron)

Call ==
    /\ pc = "idle"
    /\ \E lex \in Lexicons({"a"}, {0}, Prons, MaxEntries),
          sil \in {<<"sil">>, <<"sil", "y">>} :
            Call_prepare_lexicon(lex, sil, <<"x">>, "sil")

Next == Call \/ Pipeline

Spec == Init /\ [][Next]_vars

-----------------------------------------------------------------------------
(* SpecTables: prepare_lexicon on lexicons whose words include reserved    *)
(* symbols, with phone lists that may overlap and an optional-silence      *)
(* phone that may or may not be a declared silence phone.                  *)

MaxTabEntries == 2

TabWords == {"a", "b", "<eps>", "#0"}
TabProns == {<<"x">>, <<"y">>, <<"x", "y">>}

CallTables ==
    /\ pc = "idle"
    /\ \E lex \in Lexicons(TabWords, {0}, TabProns, MaxTabEntries),
          sil \in {<<"sil">>, <<"sil", "y">>},
          nonsil \in {<<"x">>, <<"x", "y">>},
          opt \in {"sil", "x"} :
            Call_prepare_lexicon(lex, sil, nonsil, opt)

NextTables == CallTables \/ Pipeline

SpecTables == Init /\ [][NextTables]_vars

-----------------------------------------------------------------------------
(* SpecFst: write_fst_with_silence called on its own.                      *)

MaxFstEntries == 2

FstProns == {<<>>, <<"p">>, <<"p", "r">>, <<"p", "r", "p">>}
FstLexicons ==
    SeqsUpTo({Entry("a", 1, t) : t \in FstProns} \cup {Entry("b", 2, t) : t \in FstProns},
             MaxFstEntries)

\* <<nonterminals, left_context_phones>>
GrammarArgs ==
    {<<<<>>, <<>>>>,
     <<Some(<<>>), Some(<<"p">>)>>,
     <<Some(<<"#nonterm:n">>), <<>>>>,
     <<Some(<<"#nonterm:n">>), Some(<<>>)>>,
     <<Some(<<"#nonterm:n">>), Some(<<"p", "r">>)>>}

CallFst ==
    /\ pc = "idle"
    /\ \E lex \in FstLexicons,
          sil_prob \in {0, 50},
          sil_dis \in {<<>>, Some("#1")},
          g \in GrammarArgs :
            EnterWriteFst("direct", lex, sil_prob, "sil", sil_dis, g[1], g[2])
    /\ UNCHANGED error
    /\ UNCHANGED prepVars

NextFst == CallFst \/ FstHeader \/ FstEntry \/ FstFinish

SpecFst == Init /\ [][NextFst]_vars

-----------------------------------------------------------------------------
(* Vocabulary of the properties.                                           *)

Range(q) == {q[i] : i \in DOMAIN q}

\* the run is past the disambiguation pass (lines 196-218)
Disambiguated == pc \in {"disambiguated", "tables", "fst_called", "fst_loop",
                         "fst_returned", "done"}

\* p is a proper prefix of q
IsProperPrefix(p, q) == Len(p) < Len(q) /\ SubSeq(q, 1, Len(p)) = p

\* the tagged pronunciation of entry e: what the entry holds in the place of
\* the phones it was given
TaggedPron(e) == SubSeq(lexicon[e].pron, 1, Len(input_lexicon[e].pron))
NothingAppended(e) == Len(lexicon[e].pron) = Len(input_lexicon[e].pron)
OneAppended(e) == Len(lexicon[e].pron) = Len(input_lexicon[e].pron) + 1
AppendedSym(e) == lexicon[e].pron[Len(lexicon[e].pron)]

\* the entries that share the tagged pronunciation of e, and e's place among them
Group(e) == {d \in DOMAIN lexicon : TaggedPron(d) = TaggedPron(e)}
PlaceInGroup(e) == Cardinality({d \in Group(e) : d <= e})

\* C1: after the disambiguation pass an entry has no symbol appended iff its
\* tagged pronunciation occurs exactly once in the lexicon and is not a proper
\* prefix of any entry's tagged pronunciation; every other entry has exactly
\* one symbol '#<n>', n >= 1, appended.
C1_NoSymbolIffUniqueAndNoPrefix ==
    Disambiguated =>
        \A e \in DOMAIN lexicon :
            /\ NothingAppended(e) <=>
                  /\ Cardinality(Group(e)) = 1
                  /\ ~\E d \in DOMAIN lexicon : IsProperPrefix(TaggedPron(e), TaggedPron(d))
            /\ ~NothingAppended(e) =>
                  /\ OneAppended(e)
                  /\ \E n \in 1..Len(lexicon) : AppendedSym(e) = "#" \o ToString(n)

\* a lexicon in which one entry is left alone and two others get a symbol
C1_Witness ==
    /\ pc = "disambiguated"
    /\ \E e \in DOMAIN lexicon : NothingAppended(e)
    /\ \E e, d \in DOMAIN lexicon : e # d /\ OneAppended(e) /\ OneAppended(d)

\* C2 as stated: for every k, the k entries of a group sharing a tagged
\* pronunciation carry the symbols #1 .. #k in lexicon order; two entries with
\* pronunciation ['x'] become 'x_S #1' and 'x_S #2' and the
\* silence-disambiguation symbol is 3.
C2_EveryGroupGetsRun ==
    Disambiguated =>
        /\ \A e \in DOMAIN lexicon :
              /\ OneAppended(e)
              /\ AppendedSym(e) = "#" \o ToString(PlaceInGroup(e))
        /\ [e \in DOMAIN input_lexicon |-> input_lexicon[e].pron] = <<<<"x">>, <<"x">>>>
              => /\ [e \in DOMAIN lexicon |-> lexicon[e].pron]
                        = <<<<"x_S", "#1">>, <<"x_S", "#2">>>>
                 /\ sil_disambig = 3

\* C2 amended: the same for every k >= 2 (a group of one entry gets no symbol).
C2_SharedGroupGetsRun ==
    Disambiguated =>
        /\ \A e \in DOMAIN lexicon : Cardinality(Group(e)) >= 2 =>
              /\ OneAppended(e)
              /\ AppendedSym(e) = "#" \o ToString(PlaceInGroup(e))
        /\ [e \in DOMAIN input_lexicon |-> input_lexicon[e].pron] = <<<<"x">>, <<"x">>>>
              => /\ [e \in DOMAIN lexicon |-> lexicon[e].pron]
                        = <<<<"x_S", "#1">>, <<"x_S", "#2">>>>
                 /\ sil_disambig = 3

\* three entries share one pronunciation
C2_Witness ==
    /\ pc = "disambiguated"
    /\ \E e \in DOMAIN lexicon : Cardinality(Group(e)) = 3 /\ PlaceInGroup(e) = 3

\* C3: an entry with an empty pronunciation passes tagging as empty and then
\* carries a symbol no other entry carries; the lexicon [('a', 0.0, [])] yields
\* symbol 1 and silence-disambiguation symbol 2.
C3_EmptyGetsFreshSymbol ==
    /\ (pc = "error" /\ \E e \in DOMAIN input_lexicon : Len(input_lexicon[e].pron) = 0)
          => error # "IndexError"
    /\ Disambiguated =>
          \A e \in DOMAIN lexicon : Len(input_lexicon[e].pron) = 0 =>
              /\ Len(lexicon[e].pron) = 1
              /\ \E n \in 1..Len(lexicon) : AppendedSym(e) = "#" \o ToString(n)
              /\ \A d \in DOMAIN lexicon \ {e} :
                    ~NothingAppended(d) => AppendedSym(d) # AppendedSym(e)
    /\ (Disambiguated /\ [e \in DOMAIN input_lexicon |-> input_lexicon[e].pron] = <<<<>>>>)
          => lexicon[1].pron = <<"#1">> /\ sil_disambig = 2

\* C4: after the disambiguation pass no two entries have the same augmented
\* pronunciation and none is a proper prefix of another's.
C4_AugmentedPronsIdentifyEntry ==
    Disambiguated =>
        \A e, d \in DOMAIN lexicon : e # d =>
            /\ lexicon[e].pron # lexicon[d].pron
            /\ ~IsProperPrefix(lexicon[e].pron, lexicon[d].pron)

\* two entries were given the same phones, a third a longer pronunciation
\* that starts with them
C4_Witness ==
    /\ pc = "disambiguated"
    /\ \E e, d, c \in DOMAIN lexicon :
          /\ e # d
          /\ input_lexicon[e].pron = input_lexicon[d].pron
          /\ IsProperPrefix(input_lexicon[e].pron, input_lexicon[c].pron)

\* some phone of the lexicon passed in is in neither phone list
HasImproperPhoneme ==
    \E e \in DOMAIN input_lexicon : \E k \in DOMAIN input_lexicon[e].pron :
        input_lexicon[e].pron[k] \notin Range(silence_phones) \cup Range(nonsilence_phones)

\* C9: a lexicon with a phone in neither list ends the run in an error before
\* anything is tagged, written, allocated or emitted, the caller's lexicon
\* unchanged.
C9_InvalidPhoneFailsFirst ==
    (pc # "idle" /\ HasImproperPhoneme) =>
        /\ pc \in {"called", "error"}
        /\ pc = "error" => error = "AssertionError"
        /\ lexicon = input_lexicon
        /\ caller_lexicon = input_lexicon
        /\ files = NoFiles
        /\ phone_map = <<>> /\ words_map = <<>>
        /\ fst_args = NoArgs /\ next_state = 0
        /\ file = <<>> /\ stdout = <<>>

\* the improper phone comes second in a pronunciation, after a proper one
C9_Witness ==
    /\ pc = "error"
    /\ error = "AssertionError"
    /\ \E e \in DOMAIN input_lexicon :
          /\ Len(input_lexicon[e].pron) = 2
          /\ input_lexicon[e].pron[1] \in Range(nonsilence_phones)
          /\ input_lexicon[e].pron[2] \notin Range(silence_phones) \cup Range(nonsilence_phones)

-----------------------------------------------------------------------------
(* Properties of the symbol tables and of the emitted lines.               *)

\* the symbol tables have been built (lines 220-279)
TablesBuilt == pc \in {"tables", "fst_called", "fst_loop", "fst_returned", "done"}

\* the dict maps its keys one-to-one onto 0 .. n-1
OneToOneOntoRange(d) ==
    /\ \A i, j \in DOMAIN d : i # j => d[i][1] # d[j][1] /\ d[i][2] # d[j][2]
    /\ {d[i][2] : i \in DOMAIN d} = 0..(Len(d) - 1)

IsArc(line) == "phone" \in DOMAIN line
ArcsOf(lines) == {lines[i] : i \in {j \in DOMAIN lines : IsArc(lines[j])}}

\* C5: the phone table and the word table each map their symbols one-to-one
\* onto a contiguous range of integers starting at 0, whatever the words and
\* the phone lists.
C5_TablesAreContiguous ==
    TablesBuilt => OneToOneOntoRange(phone_map) /\ OneToOneOntoRange(words_map)

\* C6: every arc emitted by a run of prepare_lexicon has its input label in
\* the phone table and its output label in the word table of that run.
C6_ArcLabelsResolve ==
    (TablesBuilt /\ fst_args.caller = "prepare_lexicon") =>
        \A a \in ArcsOf(file) :
            /\ a.phone \in {phone_map[i][1] : i \in DOMAIN phone_map}
            /\ a.word \in {words_map[i][1] : i \in DOMAIN words_map}

\* write_fst_with_silence was called with nonterminals / left_context_phones
NontermsGiven == fst_args.caller # "none" /\ Len(fst_args.nonterminals) = 1
LeftContextGiven == fst_args.caller # "none" /\ Len(fst_args.left_context_phones) = 1

\* an arc of the nonterminal extension: one that carries a #nonterm symbol or
\* leaves or enters a state allocated after the last entry's states
IsNontermLine(line, firstNew) ==
    IF IsArc(line)
    THEN line.src >= firstNew \/ line.dest >= firstNew
            \/ line.phone \in {"#nonterm_begin", "#nonterm_end", "#nonterm:n"}
    ELSE line.state >= firstNew

\* C7: with nonterminals supplied, the lines of write_nonterminal_arcs are in
\* the 'file' sink with every other line of the transducer.
C7_NontermArcsInFileSink ==
    (pc = "fst_returned" /\ NontermsGiven) =>
        \E shared, final \in 0..next_state :
            /\ shared # final
            /\ Arc(start_state, shared, "#nonterm_begin", "#nonterm_begin", Zero)
                  \in Range(file)
            /\ \A n \in Range(fst_args.nonterminals[1]) :
                  Arc(loop_state, shared, n, n, Zero) \in Range(file)
            /\ \A ph \in Range(fst_args.left_context_phones[1]) :
                  \E a \in ArcsOf(file) :
                      /\ a.src = shared /\ a.dest = loop_state
                      /\ a.phone = ph /\ a.word = "<eps>"
            /\ Arc(loop_state, final, "#nonterm_end", "#nonterm_end", Zero) \in Range(file)
            /\ Final(final, Zero) \in Range(file)

\* the states allocated to the header and to the entries emitted so far
RECURSIVE StatesOfEntries(_)
StatesOfEntries(n) ==
    IF n = 0 THEN 0
    ELSE StatesOfEntries(n - 1)
            + (IF Len(fst_args.lexicon[n].pron) >= 2
               THEN Len(fst_args.lexicon[n].pron) - 1 ELSE 0)

FirstStateAfterEntries ==
    3 + (IF Len(fst_args.sil_disambig) = 1 THEN 1 ELSE 0) + StatesOfEntries(idx)

\* C8: with an empty nonterminal list, or with left_context_phones empty or
\* absent, the extension is not run: no state is allocated for it, no arc of
\* it is emitted, and the call completes normally.
C8_ExtensionOnlyWhenBothNonEmpty ==
    LET skipped ==
            \/ ~NontermsGiven
            \/ Len(fst_args.nonterminals[1]) = 0
            \/ ~LeftContextGiven
            \/ Len(fst_args.left_context_phones[1]) = 0
    IN  (fst_args.caller # "none" /\ skipped /\ fst_args.sil_prob = 50) =>
            /\ pc # "error"
            /\ pc \in {"fst_loop", "fst_returned"} =>
                  /\ next_state = FirstStateAfterEntries
                  /\ \A i \in DOMAIN file : ~IsNontermLine(file[i], FirstStateAfterEntries)
                  /\ \A i \in DOMAIN stdout : ~IsNontermLine(stdout[i], FirstStateAfterEntries)

-----------------------------------------------------------------------------
(* The arcs of one lexicon entry, read back from the 'file' sink.          *)

\* lines printed for one entry: one per phone and one more for the parallel
\* last arc, two when the pronunciation is empty
LinesOfEntry(e) == IF Len(e.pron) = 0 THEN 2 ELSE Len(e.pron) + 1

\* lines printed before the first line of entry j
RECURSIVE LinesBefore(_)
LinesBefore(j) ==
    IF j = 1 THEN 3 + (IF Len(fst_args.sil_disambig) = 1 THEN 1 ELSE 0)
    ELSE LinesBefore(j - 1) + LinesOfEntry(fst_args.lexicon[j - 1])

Segment(j) ==
    SubSeq(file, LinesBefore(j) + 1, LinesBefore(j) + LinesOfEntry(fst_args.lexicon[j]))

\* the two paths of entry j: the shared chain followed by either last arc
PathToLoop(j) ==
    LET seg == Segment(j) IN SubSeq(seg, 1, Len(seg) - 2) \o <<seg[Len(seg) - 1]>>
PathToSilence(j) ==
    LET seg == Segment(j) IN SubSeq(seg, 1, Len(seg) - 2) \o <<seg[Len(seg)]>>

\* the path leaves 'from', is connected, ends in 'to', spells 'labels', carries
\* the word and the weight on its first arc only
IsEntryPath(path, e, to) ==
    LET labels == IF Len(e.pron) = 0 THEN <<"<eps>">> ELSE e.pron
    IN  /\ Len(path) = Len(labels)
        /\ path[1].src = loop_state
        /\ path[Len(path)].dest = to
        /\ \A k \in 1..(Len(path) - 1) : path[k].dest = path[k + 1].src
        /\ [k \in DOMAIN path |-> path[k].phone] = labels
        /\ path[1].word = e.word
        /\ path[1].cost.pron_cost = e.prob
        /\ \A k \in 2..Len(path) : path[k].word = "<eps>" /\ path[k].cost.pron_cost = 0

\* the states between the ends of the path
Intermediate(path) == {path[k].dest : k \in 1..(Len(path) - 1)}

\* C10: the arcs of every emitted entry of pronunciation length L >= 0 form
\* exactly two paths from loop, one to loop and one to silence, that share
\* L-1 intermediate states used by no earlier arc; each path spells the
\* pronunciation (one epsilon when L = 0), carries the word on exactly one arc
\* and the weight on exactly one arc.
C10_EntryEmitsTwoPaths ==
    (fst_args.caller # "none" /\ pc \in {"fst_loop", "fst_returned", "error", "done"}) =>
        \A j \in 1..idx :
            LET e == fst_args.lexicon[j]
                mid == Intermediate(PathToLoop(j))
            IN  /\ LinesBefore(j) + LinesOfEntry(e) <= Len(file)
                /\ \A i \in DOMAIN Segment(j) : IsArc(Segment(j)[i])
                /\ IsEntryPath(PathToLoop(j), e, loop_state)
                /\ IsEntryPath(PathToSilence(j), e, sil_state)
                /\ Cardinality(mid) = (IF Len(e.pron) >= 2 THEN Len(e.pron) - 1 ELSE 0)
                /\ mid \cap {start_state, loop_state, sil_state} = {}
                /\ \A i \in 1..LinesBefore(j) :
                      file[i].src \notin mid /\ file[i].dest \notin mid

\* two entries with intermediate states have been emitted after a header
\* that allocated the silence-disambiguation state
C10_Witness ==
    /\ pc = "fst_returned"
    /\ idx = 2
    /\ Len(fst_args.lexicon[1].pron) >= 2
    /\ Len(fst_args.lexicon[2].pron) = 3
    /\ Len(fst_args.sil_disambig) = 1

====
